---- MODULE Spec2Model ----
(***************************************************************************)
(* A model of the TalkJS backend proxy: the token minter and the upstream  *)
(* client of talkjsService.js and the Express route handlers of index.js.  *)
(* One inbound HTTP request is followed from its arrival to its response;  *)
(* requests share no state (every local of a handler is request-scoped),   *)
(* so the requests of a run are handled one after the other.               *)
(***************************************************************************)
EXTENDS Integers, Sequences, FiniteSets, TLC

VARIABLES
    env,            \* process.env as read at module load: the four credentials
    pc,             \* "idle" | "awaitApi" | "awaitPage" | "done"
    req,            \* the inbound request being handled
    upstreamLog,    \* the upstream HTTP requests issued for req, in order
    pageLog,        \* the upstream's answers to the page requests of req, in order
    allUsers,       \* fetchAllUsers: the accumulator
    startingAfter,  \* fetchAllUsers: the cursor
    morePages,      \* fetchAllUsers: the loop flag
    responses,      \* the HTTP responses sent for req, in order
    tokenLog,       \* the calls of generateToken made for req: argument and outcome
    apiLog,         \* the upstream's answers to the callTalkJSApi requests of req
    userList        \* the users the upstream holds, where it is a finite list (ListSpec)

vars == <<env, pc, req, upstreamLog, pageLog, allUsers, startingAfter, morePages,
          responses, tokenLog, apiLog, userList>>

-----------------------------------------------------------------------------
(* JavaScript values: a primitive is a record of its type and its payload. *)

Undefined == [type |-> "undefined", s |-> "", n |-> 0]
Null == [type |-> "null", s |-> "", n |-> 0]
Str(x) == [type |-> "string", s |-> x, n |-> 0]
Num(k) == [type |-> "number", s |-> "", n |-> k]
Bool(b) == [type |-> "boolean", s |-> "", n |-> IF b THEN 1 ELSE 0]

\* ToBoolean: what `if (v)`, `!v`, `v || d` and `v && w` test.
Truthy(v) ==
    CASE v.type = "undefined" -> FALSE
      [] v.type = "null" -> FALSE
      [] v.type = "string" -> v.s # ""
      [] v.type = "number" -> v.n # 0
      [] v.type = "boolean" -> v.n = 1
      [] OTHER -> TRUE

\* ToString, as a template literal `${v}` applies it.
ToStr(v) ==
    CASE v.type = "undefined" -> "undefined"
      [] v.type = "null" -> "null"
      [] v.type = "string" -> v.s
      [] v.type = "number" -> ToString(v.n)
      [] v.type = "boolean" -> (IF v.n = 1 THEN "true" ELSE "false")
      [] OTHER -> "[object Object]"

\* typeof v === 'object'
TypeofObject(v) == v.type \in {"null", "object", "array"}

\* A default parameter value: `f(x = d)` takes d exactly when x is undefined.
DefaultParam(v, d) == IF v = Undefined THEN d ELSE v

-----------------------------------------------------------------------------
(* The credentials, read once from the process environment.                *)

APP_ID_DEV == env.TALKJS_APP_ID_DEV
SECRET_KEY_DEV == env.TALKJS_SECRET_KEY_DEV
APP_ID_PRO == env.TALKJS_APP_ID_PRO
SECRET_KEY_PRO == env.TALKJS_SECRET_KEY_PRO

\* An environment variable is unset, set to the empty string, or set.
EnvValues(x) == {Undefined, Str(""), Str(x)}

Envs ==
    [TALKJS_APP_ID_DEV : EnvValues("tDev"), TALKJS_SECRET_KEY_DEV : EnvValues("sk_dev"),
     TALKJS_APP_ID_PRO : EnvValues("tPro"), TALKJS_SECRET_KEY_PRO : EnvValues("sk_pro")]

-----------------------------------------------------------------------------
(* talkjsService.js                                                        *)

\* A faulty variant: the credentials check asks for both to be missing.
generateTokenBothMissing(keyType0) ==
    LET keyType == DefaultParam(keyType0, Str("dev"))
        appId == IF keyType = Str("prod") THEN APP_ID_PRO ELSE APP_ID_DEV
        secretKey == IF keyType = Str("prod") THEN SECRET_KEY_PRO ELSE SECRET_KEY_DEV
    IN  IF ~Truthy(appId) /\ ~Truthy(secretKey)
        THEN [threw |-> TRUE,
              message |-> "API keys not configured for " \o ToStr(keyType) \o " environment."]
        ELSE [threw |-> FALSE,
              token |-> [tokenType |-> "app", secretKey |-> secretKey,
                         issuer |-> appId, expiresIn |-> "30s"]]

\* A faulty variant: the selection tests for 'dev' and falls back to prod.
generateTokenFallbackProd(keyType0) ==
    LET keyType == DefaultParam(keyType0, Str("dev"))
        appId == IF keyType = Str("dev") THEN APP_ID_DEV ELSE APP_ID_PRO
        secretKey == IF keyType = Str("dev") THEN SECRET_KEY_DEV ELSE SECRET_KEY_PRO
    IN  IF ~Truthy(appId) \/ ~Truthy(secretKey)
        THEN [threw |-> TRUE,
              message |-> "API keys not configured for " \o ToStr(keyType) \o " environment."]
        ELSE [threw |-> FALSE,
              token |-> [tokenType |-> "app", secretKey |-> secretKey,
                         issuer |-> appId, expiresIn |-> "30s"]]

\* generateToken(keyType = 'dev'): throws, or returns the signed token, given
\* here by what jwt.sign was handed: the payload, the key and the options.
generateToken(keyType0) ==
    LET keyType == DefaultParam(keyType0, Str("dev"))
        appId == IF keyType = Str("prod") THEN APP_ID_PRO ELSE APP_ID_DEV
        secretKey == IF keyType = Str("prod") THEN SECRET_KEY_PRO ELSE SECRET_KEY_DEV
    IN  IF ~Truthy(appId) \/ ~Truthy(secretKey)
        THEN [threw |-> TRUE,
              message |-> "API keys not configured for " \o ToStr(keyType) \o " environment."]
        ELSE [threw |-> FALSE,
              token |-> [tokenType |-> "app", secretKey |-> secretKey,
                         issuer |-> appId, expiresIn |-> "30s"]]

\* A faulty variant: the URL is always built with the dev application identifier.
callTalkJSApiDevUrl(endpoint, method0, keyType0, data0) ==
    LET method == DefaultParam(method0, Str("GET"))
        keyType == DefaultParam(keyType0, Str("dev"))
        data == DefaultParam(data0, Null)
        t == generateToken(keyType)
        appIdToUse == APP_ID_DEV
    IN  IF t.threw
        THEN [threw |-> TRUE, message |-> t.message, minted |-> <<keyType0, t>>]
        ELSE [threw |-> FALSE, minted |-> <<keyType0, t>>,
              request |-> [method |-> ToStr(method), appId |-> ToStr(appIdToUse),
                           path |-> endpoint, query |-> <<>>,
                           bearer |-> t.token, data |-> data]]

\* callTalkJSApi, up to its await: throws what generateToken throws, or
\* issues one upstream request; minted is the call of generateToken it made.
callTalkJSApi(endpoint, method0, keyType0, data0) ==
    LET method == DefaultParam(method0, Str("GET"))
        keyType == DefaultParam(keyType0, Str("dev"))
        data == DefaultParam(data0, Null)
        t == generateToken(keyType)
        appIdToUse == IF keyType = Str("prod") THEN APP_ID_PRO ELSE APP_ID_DEV
    IN  IF t.threw
        THEN [threw |-> TRUE, message |-> t.message, minted |-> <<keyType0, t>>]
        ELSE [threw |-> FALSE, minted |-> <<keyType0, t>>,
              request |-> [method |-> ToStr(method), appId |-> ToStr(appIdToUse),
                           path |-> endpoint, query |-> <<>>,
                           bearer |-> t.token, data |-> data]]


\* The page size fetchAllUsers asks for.
limit == 100

\* fetchUsersPage, up to its await: throws what generateToken throws, or
\* issues one GET of /users?limit=<limit>[&startingAfter=<startingAfter>].
fetchUsersPage(lim, startingAfter0, keyType0) ==
    LET after == DefaultParam(startingAfter0, Null)
        keyType == DefaultParam(keyType0, Str("dev"))
        t == generateToken(keyType)
        appIdToUse == IF keyType = Str("prod") THEN APP_ID_PRO ELSE APP_ID_DEV
        url == << <<"limit", ToString(lim)>> >>
    IN  IF t.threw
        THEN [threw |-> TRUE, message |-> t.message, minted |-> <<keyType0, t>>]
        ELSE [threw |-> FALSE, minted |-> <<keyType0, t>>,
              request |-> [method |-> "GET", appId |-> ToStr(appIdToUse),
                           path |-> <<"users">>,
                           query |-> IF Truthy(after)
                                     THEN Append(url, <<"startingAfter", ToStr(after)>>)
                                     ELSE url,
                           bearer |-> t.token, data |-> Undefined]]

-----------------------------------------------------------------------------
(* The upstream platform, at the boundary: what it may answer.             *)

\* The upstream answers at most this many full pages in a row.
MaxFullPages == 2

ErrorStatuses == {401, 404, 429}

\* The id of the last user of a page: any JSON string or number.
LastIds == {Str("u1"), Str(""), Num(0), Num(7)}

PageSizes == {0, 1, 37, limit}

\* The n-th page the upstream answers: size users, the last one with id lastId.
Page(n, size, lastId) ==
    [i \in 1..size |-> [id |-> IF i = size THEN lastId ELSE Str("u"), page |-> n, pos |-> i]]

\* An answer to a page request: a 200 with {data: [...]}, a 200 whose body has no
\* data array, another 2xx, a non-2xx status, or no response at all.
PageReplies(n) ==
    {[kind |-> "ok", status |-> 200, size |-> sz, lastId |-> IF sz = 0 THEN Undefined ELSE id] :
        sz \in {z \in PageSizes : z = limit => n <= MaxFullPages}, id \in LastIds}
    \cup {[kind |-> "ok", status |-> 204, size |-> 0, lastId |-> Undefined],
          [kind |-> "nodata", status |-> 200, size |-> 0, lastId |-> Undefined],
          [kind |-> "transport", status |-> 0, size |-> 0, lastId |-> Undefined]}
    \cup {[kind |-> "error", status |-> st, size |-> 0, lastId |-> Undefined] : st \in ErrorStatuses}

\* fetchUsersPage, after its await: the users array, or a throw.
fetchUsersPageResult(n, reply) ==
    IF reply.kind = "ok" /\ reply.status = 200
    THEN [threw |-> FALSE, users |-> Page(n, reply.size, reply.lastId)]
    ELSE [threw |-> TRUE, users |-> <<>>]

\* A faulty variant: the loop goes on after a failed page request.
fetchAllUsersStepKeepsGoing(acc, after, result) ==
    IF result.threw
    THEN [allUsers |-> acc, startingAfter |-> after, morePages |-> TRUE]
    ELSE IF Len(result.users) > 0
    THEN [allUsers |-> acc \o result.users,
          startingAfter |-> result.users[Len(result.users)].id,
          morePages |-> ~(Len(result.users) < limit)]
    ELSE [allUsers |-> acc, startingAfter |-> after, morePages |-> FALSE]

\* A faulty variant: the continuation test is off by one (<= limit ends the loop).
fetchAllUsersStepStopsOnFull(acc, after, result) ==
    IF result.threw
    THEN [allUsers |-> acc, startingAfter |-> after, morePages |-> FALSE]
    ELSE IF Len(result.users) > 0
    THEN [allUsers |-> acc \o result.users,
          startingAfter |-> result.users[Len(result.users)].id,
          morePages |-> ~(Len(result.users) <= limit)]
    ELSE [allUsers |-> acc, startingAfter |-> after, morePages |-> FALSE]

\* One turn of the while loop of fetchAllUsers, from the page result on: the
\* locals as the loop test finds them.
fetchAllUsersStep(acc, after, result) ==
    IF result.threw
    THEN [allUsers |-> acc, startingAfter |-> after, morePages |-> FALSE]
    ELSE IF Len(result.users) > 0
    THEN [allUsers |-> acc \o result.users,
          startingAfter |-> result.users[Len(result.users)].id,
          morePages |-> ~(Len(result.users) < limit)]
    ELSE [allUsers |-> acc, startingAfter |-> after, morePages |-> FALSE]

-----------------------------------------------------------------------------
(* JSON objects, and the two response models.                              *)

Obj(props) == [type |-> "object", s |-> "", n |-> 0, props |-> props]
Arr(items) == [type |-> "array", s |-> "", n |-> 0, items |-> items]

\* new Message(json): the upstream message, wrapped.
Message(json) == [class |-> "Message", props |-> json.props]

\* new Conversation(json): the upstream conversation, wrapped.
Conversation(props) == [class |-> "Conversation", props |-> props]

\* v.k: a property read of a JSON value that is not null or undefined.
Get(v, k) == IF v.type = "object" /\ k \in DOMAIN v.props THEN v.props[k] ELSE Undefined

\* {...v, lastMessage}: the own properties of v, lastMessage set or replaced.
SpreadWithLastMessage(v, lastMessage) ==
    LET own == IF v.type = "object" THEN DOMAIN v.props ELSE {}
    IN  [k \in own \cup {"lastMessage"} |->
            IF k = "lastMessage" THEN lastMessage ELSE v.props[k]]

\* conv => new Conversation({...conv, lastMessage}) of the two conversation routes.
ToConversation(conv) ==
    LET lastMessage == IF Truthy(Get(conv, "lastMessage"))
                       THEN Message(Get(conv, "lastMessage")) ELSE Null
    IN  Conversation(SpreadWithLastMessage(conv, lastMessage))

-----------------------------------------------------------------------------
(* What the upstream may answer to a call of callTalkJSApi.                *)

UpstreamMessage == Obj([id |-> Str("m1"), text |-> Str("hi")])

UpstreamConversations ==
    {Obj([id |-> Str("c1"), lastMessage |-> lm]) : lm \in {Undefined, Null, UpstreamMessage}}

\* A 2xx body: null, a string, a number, an array, an object (a conversation, or
\* a listing {data: [...]} with or without its data).
UpstreamBodies ==
    {Null, Str("ok"), Num(0), Arr(<<>>)} \cup UpstreamConversations
    \cup {Obj([data |-> d]) : d \in {Undefined, Arr(<<>>)}}
    \cup {Obj([data |-> Arr(<<c>>)]) : c \in UpstreamConversations}

\* A settled upstream call: a 2xx with its body, a non-2xx status with its body,
\* or no response at all.
ApiReplies ==
    {[kind |-> "ok", status |-> 200, data |-> b] : b \in UpstreamBodies}
    \cup {[kind |-> "error", status |-> st, data |-> Obj([reason |-> Str("denied")])] :
            st \in ErrorStatuses \cup {500}}
    \cup {[kind |-> "transport", status |-> 0, data |-> Undefined]}

\* The error axios rejects with: error.message, error.response?.status and
\* error.response?.data.
AxiosError(reply) ==
    IF reply.kind = "error"
    THEN [message |-> "Request failed with status code " \o ToString(reply.status),
          status |-> Num(reply.status), data |-> reply.data]
    ELSE [message |-> "Network Error", status |-> Undefined, data |-> Undefined]

\* The Error generateToken throws: it has no response.
ThrownError(message) == [message |-> message, status |-> Undefined, data |-> Undefined]

\* A TypeError raised by the handler itself (a property read of null).
TypeError == ThrownError("Cannot read properties of null")

-----------------------------------------------------------------------------
(* index.js: the responses.                                                *)

\* res.json(obj) of {error, details}: JSON.stringify leaves out an undefined details.
ErrorBody(message, details) ==
    IF details = Undefined THEN [error |-> message]
    ELSE [error |-> message, details |-> details]

\* error.response?.status || 500
StatusOr500(error) == IF Truthy(error.status) THEN error.status.n ELSE 500

\* res.status(error.response?.status || 500).json({error: error.message, details: error.response?.data})
RelayError(error) ==
    [status |-> StatusOr500(error), body |-> ErrorBody(error.message, error.data)]

-----------------------------------------------------------------------------
(* index.js: the inbound requests.                                         *)

\* req.query.keyType: absent, empty, or a string.
KeyTypes == {Undefined, Str(""), Str("dev"), Str("prod"), Str("staging")}

ConversationIds == {"c1", "c2"}
UserIds == {"u1"}

\* The :appId path segment of /v1/:appId/users/:userId.
AppIds == {"dev", "prod", "tDev", "tPro"}

\* req.body of the PUT route: access and notify, each given or not.
Bodies == [access : {Str("ReadWrite"), Undefined}, notify : {Bool(TRUE), Undefined}]

NoBody == [access |-> Undefined, notify |-> Undefined]

NoRequest ==
    [route |-> "", keyType |-> Undefined, conversationId |-> "", userId |-> "",
     appId |-> "", body |-> NoBody]

Request(route, keyType, conversationId, userId, appId, body) ==
    [route |-> route, keyType |-> keyType, conversationId |-> conversationId,
     userId |-> userId, appId |-> appId, body |-> body]

\* The handler up to its first await: the call either threw, and the catch block
\* of the route has answered, or it has issued its upstream request.
Begin(r, call, caught) ==
    /\ pc = "idle"
    /\ req' = r
    /\ tokenLog' = <<call.minted>>
    /\ IF call.threw
       THEN /\ responses' = <<caught>>
            /\ upstreamLog' = <<>>
            /\ pc' = "done"
       ELSE /\ responses' = <<>>
            /\ upstreamLog' = <<call.request>>
            /\ pc' = "awaitApi"
    /\ UNCHANGED <<env, userList, pageLog, allUsers, startingAfter, morePages, apiLog>>

\* The handler from its await on: the one response it sends.
Settle(route, reply, response) ==
    /\ pc = "awaitApi"
    /\ req.route = route
    /\ apiLog' = Append(apiLog, reply)
    /\ responses' = Append(responses, response)
    /\ pc' = "done"
    /\ UNCHANGED <<env, userList, req, upstreamLog, pageLog, allUsers, startingAfter, morePages, tokenLog>>

-----------------------------------------------------------------------------
(* GET /conversations                                                      *)

\* (data.data || []).map(...) and res.json({data: conversations}); a throw in
\* the try block (data is null) goes to the catch block.
GetConversationsThen(data) ==
    IF data.type \in {"null", "undefined"} THEN RelayError(TypeError)
    ELSE LET list == IF Truthy(Get(data, "data")) THEN Get(data, "data").items ELSE <<>>
         IN  [status |-> 200, body |-> [data |-> [i \in 1..Len(list) |-> ToConversation(list[i])]]]

GetConversations ==
    \E kt \in KeyTypes :
        LET call == callTalkJSApi(<<"conversations">>, Undefined, Undefined, Undefined)
        IN  Begin(Request("GET /conversations", kt, "", "", "", NoBody), call,
                  IF call.threw THEN RelayError(ThrownError(call.message)) ELSE <<>>)

GetConversationsSettles ==
    \E reply \in ApiReplies :
        Settle("GET /conversations", reply,
               IF reply.kind = "ok" THEN GetConversationsThen(reply.data)
               ELSE RelayError(AxiosError(reply)))

-----------------------------------------------------------------------------
(* PUT and DELETE /conversations/:conversationId/participants/:userId      *)

ParticipantPath(conversationId, userId) ==
    <<"conversations", conversationId, "participants", userId>>

\* A faulty variant: notify is not passed on.
PutDataWithoutNotify(access, notify) == Obj([access |-> access])

\* { access, notify }: the body handed to callTalkJSApi.
PutData(access, notify) == Obj([access |-> access, notify |-> notify])

PutParticipant ==
    \E cid \in ConversationIds, uid \in UserIds, kt \in KeyTypes, body \in Bodies :
        LET call == callTalkJSApi(ParticipantPath(cid, uid), Str("PUT"), kt,
                                  PutData(body.access, body.notify))
        IN  Begin(Request("PUT participant", kt, cid, uid, "", body), call,
                  IF call.threw THEN RelayError(ThrownError(call.message)) ELSE <<>>)

PutParticipantSettles ==
    \E reply \in ApiReplies :
        Settle("PUT participant", reply,
               IF reply.kind = "ok" THEN [status |-> 200, body |-> reply.data]
               ELSE RelayError(AxiosError(reply)))

DeleteParticipant ==
    \E cid \in ConversationIds, uid \in UserIds, kt \in KeyTypes :
        LET call == callTalkJSApi(ParticipantPath(cid, uid), Str("DELETE"), kt, Undefined)
        IN  Begin(Request("DELETE participant", kt, cid, uid, "", NoBody), call,
                  IF call.threw THEN RelayError(ThrownError(call.message)) ELSE <<>>)

DeleteParticipantSettles ==
    \E reply \in ApiReplies :
        Settle("DELETE participant", reply,
               IF reply.kind = "ok" THEN [status |-> 200, body |-> reply.data]
               ELSE RelayError(AxiosError(reply)))

-----------------------------------------------------------------------------
(* GET /conversations/:conversationId                                      *)

\* The try block after the await: a non-null object is wrapped and sent as
\* {data: conversation}; anything else is a 404.
GetConversationThen(conversationData) ==
    LET conversation == IF Truthy(conversationData) /\ TypeofObject(conversationData)
                        THEN ToConversation(conversationData) ELSE Null
    IN  IF conversation # Null
        THEN [status |-> 200, body |-> [data |-> conversation]]
        ELSE [status |-> 404, body |-> [error |-> "Conversación no encontrada o datos inválidos."]]

\* A faulty variant: the catch block relays every upstream status, 404 included.
GetConversationCatchRelays(conversationId, error) ==
    RelayError(error)

\* The catch block: the localized 404, or a 500 with {error, details}.
GetConversationCatch(conversationId, error) ==
    IF error.status = Num(404)
    THEN [status |-> 404,
          body |-> [error |-> "Conversación con ID " \o conversationId \o " no encontrada."]]
    ELSE [status |-> 500, body |-> ErrorBody(error.message, error.data)]

GetConversation ==
    \E cid \in ConversationIds, kt \in KeyTypes :
        LET call == callTalkJSApi(<<"conversations", cid>>, Str("GET"), kt, Undefined)
        IN  Begin(Request("GET /conversations/:conversationId", kt, cid, "", "", NoBody), call,
                  IF call.threw THEN GetConversationCatch(cid, ThrownError(call.message))
                  ELSE <<>>)

GetConversationSettles ==
    \E reply \in ApiReplies :
        Settle("GET /conversations/:conversationId", reply,
               IF reply.kind = "ok" THEN GetConversationThen(reply.data)
               ELSE GetConversationCatch(req.conversationId, AxiosError(reply)))

-----------------------------------------------------------------------------
(* GET /users/:userId/conversations                                        *)

\* res.json({conversations: data.data || []}); a throw in the try block (data
\* is null) goes to the catch block.
GetUserConversationsCatch(userId, error) ==
    IF error.status = Num(404)
    THEN [status |-> 404,
          body |-> [error |-> "Conversations for user with ID " \o userId \o " not found."]]
    ELSE RelayError(error)

GetUserConversationsThen(userId, data) ==
    IF data.type \in {"null", "undefined"} THEN GetUserConversationsCatch(userId, TypeError)
    ELSE [status |-> 200,
          body |-> [conversations |-> IF Truthy(Get(data, "data"))
                                      THEN Get(data, "data") ELSE Arr(<<>>)]]

GetUserConversations ==
    \E uid \in UserIds, kt \in KeyTypes :
        LET call == callTalkJSApi(<<"users", uid, "conversations">>, Str("GET"), kt, Undefined)
        IN  Begin(Request("GET /users/:userId/conversations", kt, "", uid, "", NoBody), call,
                  IF call.threw THEN GetUserConversationsCatch(uid, ThrownError(call.message))
                  ELSE <<>>)

GetUserConversationsSettles ==
    \E reply \in ApiReplies :
        Settle("GET /users/:userId/conversations", reply,
               IF reply.kind = "ok" THEN GetUserConversationsThen(req.userId, reply.data)
               ELSE GetUserConversationsCatch(req.userId, AxiosError(reply)))

-----------------------------------------------------------------------------
(* GET /v1/:appId/users/:userId                                            *)

\* The catch block: the upstream status with {error, details}, or a 500 with {error}.
GetUserCatch(error) ==
    IF Truthy(error.status)
    THEN [status |-> error.status.n, body |-> ErrorBody(error.message, error.data)]
    ELSE [status |-> 500, body |-> [error |-> error.message]]

\* The :appId segment is handed to callTalkJSApi as its keyType.
GetUser ==
    \E app \in AppIds, uid \in UserIds :
        LET call == callTalkJSApi(<<"users", uid>>, Str("GET"), Str(app), Undefined)
        IN  Begin(Request("GET /v1/:appId/users/:userId", Undefined, "", uid, app, NoBody), call,
                  IF call.threw THEN GetUserCatch(ThrownError(call.message)) ELSE <<>>)

GetUserSettles ==
    \E reply \in ApiReplies :
        Settle("GET /v1/:appId/users/:userId", reply,
               IF reply.kind = "ok" THEN [status |-> 200, body |-> reply.data]
               ELSE GetUserCatch(AxiosError(reply)))

-----------------------------------------------------------------------------
(* GET /users: fetchAllUsers, one await at a time.                         *)

\* const keyType = req.query.keyType || 'dev'
UsersKeyType(kt) == IF Truthy(kt) THEN kt ELSE Str("dev")

\* res.json({users: allUsers})
UsersResponse(users) == [status |-> 200, body |-> [users |-> users]]

\* The loop test and what follows it, given the locals after a turn: the next
\* page request is issued, or that request throws before its await and the
\* catch block of the loop ends the loop, or the loop has ended; in the last two
\* cases fetchAllUsers returns and the route answers.
LoopOn(locals, keyType) ==
    LET call == fetchUsersPage(limit, locals.startingAfter, keyType)
        caught == fetchAllUsersStep(locals.allUsers, locals.startingAfter,
                                    [threw |-> TRUE, users |-> <<>>])
        final == IF locals.morePages THEN caught ELSE locals
    IN  /\ tokenLog' = IF locals.morePages THEN Append(tokenLog, call.minted) ELSE tokenLog
        /\ IF locals.morePages /\ ~call.threw
           THEN /\ upstreamLog' = Append(upstreamLog, call.request)
                /\ allUsers' = locals.allUsers
                /\ startingAfter' = locals.startingAfter
                /\ morePages' = locals.morePages
                /\ responses' = responses
                /\ pc' = "awaitPage"
           ELSE /\ upstreamLog' = upstreamLog
                /\ allUsers' = final.allUsers
                /\ startingAfter' = final.startingAfter
                /\ morePages' = final.morePages
                /\ responses' = Append(responses, UsersResponse(final.allUsers))
                /\ pc' = "done"

GetUsers ==
    \E kt \in KeyTypes :
        /\ pc = "idle"
        /\ req' = Request("GET /users", kt, "", "", "", NoBody)
        /\ LoopOn([allUsers |-> <<>>, startingAfter |-> Null, morePages |-> TRUE],
                  UsersKeyType(kt))
        /\ UNCHANGED <<env, userList, pageLog, apiLog>>

\* A page request settles: the rest of the turn of the loop, then the loop test.
UsersPageSettles ==
    \E reply \in PageReplies(Len(pageLog) + 1) :
        /\ pc = "awaitPage"
        /\ pageLog' = Append(pageLog, reply)
        /\ LoopOn(fetchAllUsersStep(allUsers, startingAfter,
                                    fetchUsersPageResult(Len(pageLog) + 1, reply)),
                  UsersKeyType(req.keyType))
        /\ UNCHANGED <<env, userList, req, apiLog>>

-----------------------------------------------------------------------------

\* The response is out; the locals of the request are gone.
Complete ==
    /\ pc = "done"
    /\ pc' = "idle"
    /\ req' = NoRequest
    /\ upstreamLog' = <<>>
    /\ pageLog' = <<>>
    /\ allUsers' = <<>>
    /\ startingAfter' = Null
    /\ morePages' = FALSE
    /\ responses' = <<>>
    /\ tokenLog' = <<>>
    /\ apiLog' = <<>>
    /\ UNCHANGED <<env, userList>>

Init ==
    /\ env \in Envs
    /\ pc = "idle"
    /\ req = NoRequest
    /\ upstreamLog = <<>>
    /\ pageLog = <<>>
    /\ allUsers = <<>>
    /\ startingAfter = Null
    /\ morePages = FALSE
    /\ responses = <<>>
    /\ tokenLog = <<>>
    /\ apiLog = <<>>
    /\ userList = <<>>

Next ==
    \/ GetConversations
    \/ GetConversationsSettles
    \/ PutParticipant
    \/ PutParticipantSettles
    \/ DeleteParticipant
    \/ DeleteParticipantSettles
    \/ GetConversation
    \/ GetConversationSettles
    \/ GetUserConversations
    \/ GetUserConversationsSettles
    \/ GetUser
    \/ GetUserSettles
    \/ GetUsers
    \/ UsersPageSettles
    \/ Complete

Spec == Init /\ [][Next]_vars

-----------------------------------------------------------------------------
(* GET /users against an upstream that holds a finite list of users and    *)
(* answers a page request with users that follow the cursor it is given.   *)

\* The upstream answers at most this many page requests of one operation.
MaxPageRequests == 4

ListSizes == {0, 37, 100, 137, 200}

\* n users with distinct ids u1..un, but for the one at position odd (if any),
\* whose id is oddId.
UserList(n, odd, oddId) ==
    [i \in 1..n |-> [id |-> IF i = odd THEN oddId ELSE Str("u" \o ToString(i)),
                     page |-> 0, pos |-> i]]

UserLists ==
    {UserList(n, 0, Null) : n \in ListSizes}
    \cup {UserList(n, limit, id) : n \in {z \in ListSizes : z >= limit},
                                     id \in {Str(""), Num(0), Num(7)}}

\* The startingAfter parameter of a query, if it has one.
HasCursor(query) == Len(query) = 2
CursorOf(query) == query[2][2]

\* The positions of the users the cursor names (one, the ids being distinct).
CursorPositions(query) ==
    {p \in DOMAIN userList : ToStr(userList[p].id) = CursorOf(query)}

\* The answers to a page request: up to limit of the users that follow the
\* cursor (those from the start of the list when there is none), or a failure;
\* a cursor that names no user is a failure.
ListPageResults(query) ==
    LET known == ~HasCursor(query) \/ CursorPositions(query) # {}
        start == IF HasCursor(query) /\ known
                 THEN CHOOSE p \in CursorPositions(query) : TRUE ELSE 0
        left == Len(userList) - start
        counts == {IF left < limit THEN left ELSE limit, IF left < 37 THEN left ELSE 37}
    IN  {[threw |-> TRUE, users |-> <<>>]}
        \cup {[threw |-> FALSE, users |-> SubSeq(userList, start + 1, start + c)] :
                c \in IF known THEN counts ELSE {}}

\* What pageLog keeps of an answer.
ListReply(result) ==
    IF result.threw
    THEN [kind |-> "transport", status |-> 0, size |-> 0, lastId |-> Undefined]
    ELSE [kind |-> "ok", status |-> 200, size |-> Len(result.users),
          lastId |-> IF result.users = <<>> THEN Undefined
                     ELSE result.users[Len(result.users)].id]

\* A page request settles against the list: the rest of the turn of the loop,
\* then the loop test.
ListPageSettles ==
    /\ pc = "awaitPage"
    /\ Len(pageLog) < MaxPageRequests
    /\ \E result \in ListPageResults(upstreamLog[Len(upstreamLog)].query) :
          /\ pageLog' = Append(pageLog, ListReply(result))
          /\ LoopOn(fetchAllUsersStep(allUsers, startingAfter, result),
                    UsersKeyType(req.keyType))
    /\ UNCHANGED <<env, userList, req, apiLog>>

ListInit ==
    /\ env \in Envs
    /\ userList \in UserLists
    /\ pc = "idle"
    /\ req = NoRequest
    /\ upstreamLog = <<>>
    /\ pageLog = <<>>
    /\ allUsers = <<>>
    /\ startingAfter = Null
    /\ morePages = FALSE
    /\ responses = <<>>
    /\ tokenLog = <<>>
    /\ apiLog = <<>>

ListNext ==
    \/ GetUsers
    \/ ListPageSettles
    \/ Complete

ListSpec == ListInit /\ [][ListNext]_vars

-----------------------------------------------------------------------------
(* Vocabulary of the properties.                                           *)

\* The records of the pages the upstream has answered, pages first..last of log.
RECURSIVE PagesOf(_, _, _)
PagesOf(log, first, last) ==
    IF first > last THEN <<>>
    ELSE (IF log[first].kind = "ok" /\ log[first].status = 200
          THEN Page(first, log[first].size, log[first].lastId) ELSE <<>>)
         \o PagesOf(log, first + 1, last)

IsPage(reply) == reply.kind = "ok" /\ reply.status = 200
IsFullPage(reply) == IsPage(reply) /\ reply.size = 100
IsShortPage(reply) == IsPage(reply) /\ reply.size < 100

\* The credentials of an environment, and whether one of them is missing.
AppIdOf(e) == IF e = "prod" THEN env.TALKJS_APP_ID_PRO ELSE env.TALKJS_APP_ID_DEV
SecretOf(e) == IF e = "prod" THEN env.TALKJS_SECRET_KEY_PRO ELSE env.TALKJS_SECRET_KEY_DEV
IsMissing(v) == v = Undefined \/ v = Str("")
Misconfigured(e) == IsMissing(AppIdOf(e)) \/ IsMissing(SecretOf(e))

\* An upstream request made with the application identifier and the secret of e.
MadeWith(request, e) ==
    /\ request.appId = AppIdOf(e).s
    /\ request.bearer.issuer = AppIdOf(e)
    /\ request.bearer.secretKey = SecretOf(e)

InFlight == pc \in {"awaitApi", "awaitPage", "done"}

-----------------------------------------------------------------------------
(* C1: fetchAllUsers against an upstream that answers k full pages of 100  *)
(* records and then one page of fewer than 100 (possibly none): while every *)
(* page so far is full the next page request is pending; once the short    *)
(* page is in, no further request is issued and GET /users answers with    *)
(* exactly the concatenation of the pages, in upstream order.              *)
C1_PagesConcatenated ==
    (req.route = "GET /users" /\ pageLog # <<>>
        /\ \A i \in 1..(Len(pageLog) - 1) : IsFullPage(pageLog[i]))
    => /\ IsFullPage(pageLog[Len(pageLog)])
          => /\ pc = "awaitPage"
             /\ Len(upstreamLog) = Len(pageLog) + 1
             /\ allUsers = PagesOf(pageLog, 1, Len(pageLog))
       /\ IsShortPage(pageLog[Len(pageLog)])
          => /\ pc = "done"
             /\ Len(upstreamLog) = Len(pageLog)
             /\ allUsers = PagesOf(pageLog, 1, Len(pageLog))
             /\ responses = <<UsersResponse(PagesOf(pageLog, 1, Len(pageLog)))>>

\* Pages of 100, 100 and 37 records: 237 records and exactly 3 requests.
C1_Witness ==
    /\ req.route = "GET /users" /\ pc = "done"
    /\ Len(pageLog) = 3
    /\ pageLog[1].size = 100 /\ pageLog[2].size = 100 /\ pageLog[3].size = 37
    /\ Len(upstreamLog) = 3
    /\ Len(responses[1].body.users) = 237

(* C2: if the n-th page request of fetchAllUsers fails (a non-2xx status or *)
(* no response), no further page request is issued and GET /users answers  *)
(* normally, with exactly the records of pages 1..n-1 in order.            *)
C2_PartialResultOnFailure ==
    (req.route = "GET /users" /\ pageLog # <<>>
        /\ pageLog[Len(pageLog)].kind \in {"error", "transport"})
    => /\ pc = "done"
       /\ Len(upstreamLog) = Len(pageLog)
       /\ responses = <<UsersResponse(PagesOf(pageLog, 1, Len(pageLog) - 1))>>

\* The second page request fails after a full first page.
C2_Witness ==
    /\ req.route = "GET /users" /\ pc = "done"
    /\ Len(pageLog) = 2 /\ IsFullPage(pageLog[1]) /\ pageLog[2].kind = "error"
    /\ Len(responses[1].body.users) = 100

\* The environment a request selects: the :appId segment on the /v1 route, the
\* keyType query parameter elsewhere; dev unless it says prod.
Selected(r) ==
    IF r.route = "GET /v1/:appId/users/:userId"
    THEN (IF r.appId = "prod" THEN "prod" ELSE "dev")
    ELSE (IF r.keyType = Str("prod") THEN "prod" ELSE "dev")

\* The environment generateToken and callTalkJSApi are asked for.
Asked(keyType) == IF keyType = Str("prod") THEN "prod" ELSE "dev"

(* C3: on every route, GET /users included, a request whose selected       *)
(* environment lacks its application identifier or its secret issues no    *)
(* upstream request and is answered with an error response.                *)
C3_MissingConfigAborts ==
    (InFlight /\ Misconfigured(Selected(req)))
    => /\ upstreamLog = <<>>
       /\ pc = "done"
       /\ Len(responses) = 1
       /\ responses[1].status >= 400

(* C4: generateToken throws if and only if the application identifier or   *)
(* the secret of the environment it is asked for is empty or undefined;    *)
(* when it throws there is no token, and otherwise the token's issuer is   *)
(* that environment's application identifier.                              *)
C4_TokenIffConfigured ==
    \A i \in DOMAIN tokenLog :
        LET e == Asked(tokenLog[i][1])
            result == tokenLog[i][2]
        IN  /\ result.threw <=> Misconfigured(e)
            /\ result.threw => "token" \notin DOMAIN result
            /\ ~result.threw => /\ "token" \in DOMAIN result
                                /\ result.token.issuer = AppIdOf(e)
                                /\ result.token.issuer.s # ""

\* A token refused for an empty secret beside a set application identifier.
C4_Witness ==
    /\ pc = "done" /\ Len(tokenLog) = 1
    /\ tokenLog[1][1] = Str("prod")
    /\ tokenLog[1][2].threw
    /\ env.TALKJS_APP_ID_PRO = Str("tPro") /\ env.TALKJS_SECRET_KEY_PRO = Str("")

(* C5: on every route except GET /users, an upstream failure that carries  *)
(* an HTTP status is answered with that status, and one that carries none  *)
(* with 500.                                                               *)
C5_UpstreamStatusRelayed ==
    (pc = "done" /\ req.route # "GET /users" /\ apiLog # <<>> /\ apiLog[1].kind # "ok")
    => /\ Len(responses) = 1
       /\ responses[1].status = IF apiLog[1].kind = "error" THEN apiLog[1].status ELSE 500

(* C6, as stated: on every route that reads keyType from the query string, *)
(* GET /conversations included, the upstream requests are made with the    *)
(* credentials of prod when keyType is prod and of dev when it is dev or   *)
(* absent.                                                                 *)
C6_QueryKeyTypeSelects ==
    (InFlight /\ req.route # "GET /v1/:appId/users/:userId"
        /\ req.keyType \in {Undefined, Str("dev"), Str("prod")})
    => \A i \in DOMAIN upstreamLog : MadeWith(upstreamLog[i], Asked(req.keyType))

(* C6, amended: the same on every route that reads keyType from the query  *)
(* string except GET /conversations, which ignores keyType and always uses *)
(* the credentials of dev.                                                 *)
C6_QueryKeyTypeSelectsButList ==
    /\ (InFlight /\ req.route \notin {"GET /v1/:appId/users/:userId", "GET /conversations"}
            /\ req.keyType \in {Undefined, Str("dev"), Str("prod")})
       => \A i \in DOMAIN upstreamLog : MadeWith(upstreamLog[i], Asked(req.keyType))
    /\ (InFlight /\ req.route = "GET /conversations")
       => \A i \in DOMAIN upstreamLog : MadeWith(upstreamLog[i], "dev")

\* A keyType=prod request that has called the prod application.
C6_Witness ==
    /\ pc = "done" /\ req.route = "GET /users/:userId/conversations"
    /\ req.keyType = Str("prod")
    /\ Len(upstreamLog) = 1 /\ upstreamLog[1].appId = "tPro"
    /\ env.TALKJS_APP_ID_DEV = Str("tDev")

(* C7: for every environment value other than 'dev' and 'prod' (undefined, *)
(* or the :appId segment of the /v1 route), generateToken and              *)
(* callTalkJSApi do what they do for 'dev': they fail exactly when the dev *)
(* credentials are missing, and otherwise sign with the dev secret, issue  *)
(* as the dev application and call the dev application's URL.              *)
C7_PermissiveFallback ==
    \A i \in DOMAIN tokenLog :
        tokenLog[i][1] \notin {Str("dev"), Str("prod")}
        => /\ tokenLog[i][2].threw <=> Misconfigured("dev")
           /\ ~tokenLog[i][2].threw
              => /\ tokenLog[i][2].token.issuer = env.TALKJS_APP_ID_DEV
                 /\ tokenLog[i][2].token.secretKey = env.TALKJS_SECRET_KEY_DEV
                 /\ i \in DOMAIN upstreamLog
                 /\ MadeWith(upstreamLog[i], "dev")
           /\ tokenLog[i][2].threw => upstreamLog = <<>>

\* The /v1 route handed the prod application's identifier and calling dev.
C7_Witness ==
    /\ pc = "done" /\ req.route = "GET /v1/:appId/users/:userId" /\ req.appId = "tPro"
    /\ Len(upstreamLog) = 1 /\ upstreamLog[1].appId = "tDev"
    /\ upstreamLog[1].bearer.secretKey = Str("sk_dev")
    /\ env.TALKJS_APP_ID_PRO = Str("tPro")

(* C8: GET /conversations/:conversationId answers an upstream 404 with    *)
(* status 404 and exactly the body {error: "Conversación con ID <id> no    *)
(* encontrada."}, without details, and answers an upstream success whose   *)
(* body is null or not an object with a 404 too, never with {data: ...}.   *)
C8_ConversationNotFound ==
    (pc = "done" /\ req.route = "GET /conversations/:conversationId" /\ apiLog # <<>>)
    => /\ (apiLog[1].kind = "error" /\ apiLog[1].status = 404)
          => responses =
                <<[status |-> 404,
                   body |-> [error |-> "Conversación con ID " \o req.conversationId
                                       \o " no encontrada."]]>>
       /\ (apiLog[1].kind = "ok" /\ apiLog[1].data.type \notin {"object", "array"})
          => /\ Len(responses) = 1
             /\ responses[1].status = 404
             /\ DOMAIN responses[1].body = {"error"}

\* An upstream 404 for conversation c2, answered.
C8_Witness ==
    /\ pc = "done" /\ req.route = "GET /conversations/:conversationId"
    /\ req.conversationId = "c2"
    /\ Len(apiLog) = 1 /\ apiLog[1].kind = "error" /\ apiLog[1].status = 404
    /\ Len(responses) = 1 /\ responses[1].status = 404

\* What the PUT route is to hand upstream, and what it is to answer.
PutRelayed ==
    /\ \A i \in DOMAIN upstreamLog :
          /\ upstreamLog[i].method = "PUT"
          /\ upstreamLog[i].path = <<"conversations", req.conversationId,
                                     "participants", req.userId>>
          /\ upstreamLog[i].data = Obj([access |-> req.body.access, notify |-> req.body.notify])
    /\ Len(apiLog) <= 1
    /\ pc = "awaitApi" => responses = <<>>
    /\ pc = "done" => Len(responses) = 1
    /\ (pc = "done" /\ apiLog # <<>> /\ apiLog[1].kind = "ok")
       => responses = <<[status |-> 200, body |-> apiLog[1].data]>>

(* C9, as stated: every PUT /conversations/:conversationId/participants/   *)
(* :userId issues exactly one upstream request, a PUT to the participant   *)
(* resource with the body {access, notify} of the inbound body; an upstream *)
(* success is relayed with status 200 and the upstream body unchanged; one *)
(* response is sent per request.                                           *)
C9_ExactlyOneUpstreamPut ==
    (InFlight /\ req.route = "PUT participant")
    => /\ Len(upstreamLog) = 1
       /\ PutRelayed

(* C9, amended: the same, with at most one upstream request: exactly one   *)
(* when the selected environment has its application identifier and its    *)
(* secret, and none when either is missing.                                *)
C9_AtMostOneUpstreamPut ==
    (InFlight /\ req.route = "PUT participant")
    => /\ Len(upstreamLog) = IF Misconfigured(Selected(req)) THEN 0 ELSE 1
       /\ PutRelayed

\* A PUT with {access: "ReadWrite", notify: true}, relayed and answered 200.
C9_Witness ==
    /\ pc = "done" /\ req.route = "PUT participant"
    /\ req.body = [access |-> Str("ReadWrite"), notify |-> Bool(TRUE)]
    /\ Len(upstreamLog) = 1 /\ upstreamLog[1].method = "PUT"
    /\ Len(apiLog) = 1 /\ apiLog[1].kind = "ok"
    /\ Len(responses) = 1 /\ responses[1].status = 200

(* C10: the first page request of fetchAllUsers carries limit=100 and no   *)
(* startingAfter; every later one carries startingAfter equal to the id of *)
(* the last record of the page before it, whatever that id is; so no page  *)
(* request repeats the query of an earlier one (of pages that end with     *)
(* different ids).                                                         *)
C10_CursorChained ==
    (InFlight /\ req.route = "GET /users" /\ upstreamLog # <<>>)
    => /\ upstreamLog[1].query = << <<"limit", "100">> >>
       /\ \A i \in 2..Len(upstreamLog) :
             upstreamLog[i].query =
                << <<"limit", "100">>, <<"startingAfter", ToStr(pageLog[i - 1].lastId)>> >>
       /\ \A i, j \in DOMAIN upstreamLog :
             (i < j /\ (i > 1 => pageLog[i - 1].lastId # pageLog[j - 1].lastId))
             => upstreamLog[i].query # upstreamLog[j].query

(* C11: against an upstream that holds a finite list of N users and        *)
(* answers each page request with at most 100 of the users that follow the *)
(* cursor it is given, or with a failure, fetchAllUsers issues at most     *)
(* floor(N/100)+1 page requests, and GET /users sends its one response     *)
(* once fetchAllUsers has returned.                                        *)
C11_BoundedPageRequests ==
    (InFlight /\ req.route = "GET /users")
    => /\ Len(upstreamLog) <= (Len(userList) \div 100) + 1
       /\ pc = "done" => Len(responses) = 1

====
